---- MODULE Spec2Model ----
(***************************************************************************)
(* The lobby of app.py: the in-memory registries CONNECTED and ROLE_OWNER, *)
(* the four Socket.IO handlers (connect, disconnect, choose_role,          *)
(* release_role) and the /set-role HTTP route, each as one atomic step.    *)
(* Handlers are serialized: every step runs a whole handler.               *)
(***************************************************************************)
EXTENDS Integers, Sequences, FiniteSets, TLC

\* ---------------------------------------------------------------- bounds
\* Number of socket ids the transport may hand out.
MaxSids == 3

\* ------------------------------------------------------------- constants
MAX_PLAYERS == 2

\* Python's None.
None == "None"

\* request.sid values: opaque non-empty strings assigned by the transport.
Sids == {"sid" \o ToString(i) : i \in 1..MaxSids}

\* The literal tuple ("hacker", "defender") the handlers test membership in.
RoleKinds == {"hacker", "defender"}

\* Values (data or {}).get("role") can take: a valid role, some other string,
\* or None when the payload or its "role" key is missing.
Desired == RoleKinds \cup {"wizard", None}

VARIABLES
    CONNECTED,   \* sid -> [role |-> None | "hacker" | "defender"]
    ROLE_OWNER,  \* "hacker" | "defender" -> sid | None
    events,      \* what the last handler emitted, in call order
    last         \* the last handler call and the registries it started from

vars == <<CONNECTED, ROLE_OWNER, events, last>>

\* ------------------------------------------------------- python helpers
\* Truth value of a ROLE_OWNER entry: None is falsy, a sid (a non-empty
\* string) is truthy.
Truthy(x) == x # None

\* len(CONNECTED)
Len_CONNECTED(C) == Cardinality(DOMAIN C)

\* CONNECTED[sid] = {"role": None}
SetItem(C, sid, v) ==
    [s \in (DOMAIN C) \cup {sid} |-> IF s = sid THEN v ELSE C[s]]

\* Mutant: the pop is forgotten, the connection stays registered.
Pop_keeps(C, sid) == C

\* CONNECTED.pop(sid, None)
Pop(C, sid) == [s \in (DOMAIN C) \ {sid} |-> C[s]]

\* ROLE_OWNER.get(key)
Get(R, key) == IF key \in DOMAIN R THEN R[key] ELSE None

\* emit(name, payload) inside a handler: to the requesting sid only.
\* socketio.emit(name, payload): to every connected client.
ToAll == "all"

\* ---------------------------------------------------- helper broadcasts
broadcast_player_count(C) ==
    [event |-> "player_count", to |-> ToAll,
     count |-> Len_CONNECTED(C), max |-> MAX_PLAYERS]

broadcast_roles(R) ==
    [event |-> "roles_update", to |-> ToAll,
     hacker |-> Truthy(R["hacker"]), defender |-> Truthy(R["defender"])]

\* Mutant: "or" for "and": one role taken is enough.
all_roles_taken_any(R) == R["hacker"] # None \/ R["defender"] # None

all_roles_taken(R) == R["hacker"] # None /\ R["defender"] # None

roles_ready == [event |-> "roles_ready", to |-> ToAll, ok |-> TRUE]

\* What a handler leaves behind: the registries, the events it emitted and
\* the exception it raised (None when it returned normally).
Outcome(C, R, ev, exc) ==
    [CONNECTED |-> C, ROLE_OWNER |-> R, events |-> ev, raised |-> exc]

\* ------------------------------------------------------------- handlers
\* Mutant: a new connection resets the role locks.
handle_connect_resets(C, R, sid) ==
    LET C2 == SetItem(C, sid, [role |-> None])
        R2 == [role \in DOMAIN R |-> None]
    IN  Outcome(C2, R2, <<broadcast_player_count(C2), broadcast_roles(R2)>>, None)

\* Mutant: admission is capped, a connection beyond MAX_PLAYERS is dropped.
handle_connect_capped(C, R, sid) ==
    LET C2 == SetItem(C, sid, [role |-> None])
    IN  IF Len_CONNECTED(C) >= MAX_PLAYERS
        THEN Outcome(C, R, <<>>, None)
        ELSE Outcome(C2, R, <<broadcast_player_count(C2), broadcast_roles(R)>>, None)

handle_connect(C, R, sid) ==
    LET C2 == SetItem(C, sid, [role |-> None])
    IN  Outcome(C2, R, <<broadcast_player_count(C2), broadcast_roles(R)>>, None)

\* Mutant: the roles of the leaving sid are not freed.
release_owned_nothing(R, sid) == R

\* Mutant: the "owner == sid" test is dropped, every role is freed.
release_owned_all(R, sid) == [role \in DOMAIN R |-> None]

\* The loop over ROLE_OWNER.items() that frees every role sid owns.
release_owned(R, sid) ==
    [role \in DOMAIN R |-> IF R[role] = sid THEN None ELSE R[role]]

\* Mutant: the broadcasts are made before the registries are cleaned up.
handle_disconnect_stale_broadcast(C, R, sid) ==
    LET R2 == release_owned(R, sid)
        C2 == Pop(C, sid)
    IN  Outcome(C2, R2, <<broadcast_player_count(C), broadcast_roles(R)>>, None)

handle_disconnect(C, R, sid) ==
    LET R2 == release_owned(R, sid)
        C2 == Pop(C, sid)
    IN  Outcome(C2, R2, <<broadcast_player_count(C2), broadcast_roles(R2)>>, None)

\* Mutant: the failure is sent with socketio.emit, that is to everyone.
choose_role_failed_broadcast(sid, error) ==
    [event |-> "choose_role_failed", to |-> ToAll, error |-> error]

choose_role_failed(sid, error) ==
    [event |-> "choose_role_failed", to |-> sid, error |-> error]

\* Mutant: the role_taken guard is dropped.
role_taken_by_other_never(R, sid, desired) == FALSE

\* Mutant: "and owner != sid" is dropped, the owner is refused too.
role_taken_by_other_or_self(R, sid, desired) == Truthy(Get(R, desired))

\* "owner and owner != sid": the role is held by another sid.
role_taken_by_other(R, sid, desired) ==
    LET owner == Get(R, desired)
    IN  Truthy(owner) /\ owner # sid

\* Mutant: the already_owns_other_role guard is dropped.
owns_other_role_never(R, sid, desired) == FALSE

\* The loop looking for a role r != desired with ROLE_OWNER[r] == sid; the
\* role found is a non-empty string, so "if other_role" asks whether one exists.
owns_other_role(R, sid, desired) ==
    \E r \in DOMAIN R : R[r] = sid /\ r # desired

\* Mutant: the role is validated before the player count is looked at.
first_failure_role_first(C, R, sid, desired) ==
    LET count == Len_CONNECTED(C)
    IN  IF desired \notin RoleKinds THEN "invalid_role"
        ELSE IF count < MAX_PLAYERS THEN "waiting_for_players"
        ELSE IF role_taken_by_other(R, sid, desired) THEN "role_taken"
        ELSE IF owns_other_role(R, sid, desired) THEN "already_owns_other_role"
        ELSE None

\* Mutant: "count <= MAX_PLAYERS" for "count < MAX_PLAYERS".
first_failure_off_by_one(C, R, sid, desired) ==
    LET count == Len_CONNECTED(C)
    IN  IF count <= MAX_PLAYERS THEN "waiting_for_players"
        ELSE IF desired \notin RoleKinds THEN "invalid_role"
        ELSE IF role_taken_by_other(R, sid, desired) THEN "role_taken"
        ELSE IF owns_other_role(R, sid, desired) THEN "already_owns_other_role"
        ELSE None

\* The chain of guards that emit choose_role_failed and return: the error of
\* the first one that fires, None when the call goes on to assign the role.
first_failure(C, R, sid, desired) ==
    LET count == Len_CONNECTED(C)
    IN  IF count < MAX_PLAYERS THEN "waiting_for_players"
        ELSE IF desired \notin RoleKinds THEN "invalid_role"
        ELSE IF role_taken_by_other(R, sid, desired) THEN "role_taken"
        ELSE IF owns_other_role(R, sid, desired) THEN "already_owns_other_role"
        ELSE None

\* Mutant: CONNECTED[sid]["role"] = desired is forgotten on a claim.
handle_choose_role_no_field(C, R, sid, desired) ==
    LET error == first_failure(C, R, sid, desired)
        R2 == [R EXCEPT ![desired] = sid]
        success == [event |-> "choose_role_success", to |-> sid, role |-> desired]
    IN  IF error # None
        THEN Outcome(C, R, <<choose_role_failed(sid, error)>>, None)
        ELSE Outcome(C, R2,
                     <<success, broadcast_roles(R2)>>
                        \o (IF all_roles_taken(R2) THEN <<roles_ready>> ELSE <<>>),
                     None)

\* Mutant: roles_update is built from ROLE_OWNER as it was before the claim.
handle_choose_role_stale_broadcast(C, R, sid, desired) ==
    LET error == first_failure(C, R, sid, desired)
        R2 == [R EXCEPT ![desired] = sid]
        C2 == [C EXCEPT ![sid] = [role |-> desired]]
        success == [event |-> "choose_role_success", to |-> sid, role |-> desired]
    IN  IF error # None
        THEN Outcome(C, R, <<choose_role_failed(sid, error)>>, None)
        ELSE Outcome(C2, R2,
                     <<success, broadcast_roles(R)>>
                        \o (IF all_roles_taken(R2) THEN <<roles_ready>> ELSE <<>>),
                     None)

handle_choose_role(C, R, sid, desired) ==
    LET error == first_failure(C, R, sid, desired)
        R2 == [R EXCEPT ![desired] = sid]
        C2 == [C EXCEPT ![sid] = [role |-> desired]]
        success == [event |-> "choose_role_success", to |-> sid, role |-> desired]
    IN  IF error # None
        THEN Outcome(C, R, <<choose_role_failed(sid, error)>>, None)
        ELSE IF sid \notin DOMAIN C
        \* ROLE_OWNER[desired] = sid is done, CONNECTED[sid] raises KeyError
        THEN Outcome(C, R2, <<>>, "KeyError")
        ELSE Outcome(C2, R2,
                     <<success, broadcast_roles(R2)>>
                        \o (IF all_roles_taken(R2) THEN <<roles_ready>> ELSE <<>>),
                     None)

\* Mutant: CONNECTED[sid]["role"] = None is forgotten on release.
handle_release_role_keeps_field(C, R, sid, role) ==
    LET R2 == [R EXCEPT ![role] = None]
        released == [event |-> "role_released", to |-> sid, role |-> role]
    IN  IF role \in RoleKinds /\ Get(R, role) = sid
        THEN Outcome(C, R2, <<released, broadcast_roles(R2)>>, None)
        ELSE Outcome(C, R, <<>>, None)

\* Mutant: the "== sid" test is dropped, any held role can be released.
handle_release_role_any_owner(C, R, sid, role) ==
    LET R2 == [R EXCEPT ![role] = None]
        C2 == [C EXCEPT ![sid] = [role |-> None]]
        released == [event |-> "role_released", to |-> sid, role |-> role]
    IN  IF role \in RoleKinds /\ Truthy(Get(R, role))
        THEN Outcome(C2, R2, <<released, broadcast_roles(R2)>>, None)
        ELSE Outcome(C, R, <<>>, None)

handle_release_role(C, R, sid, role) ==
    LET R2 == [R EXCEPT ![role] = None]
        C2 == [C EXCEPT ![sid] = [role |-> None]]
        released == [event |-> "role_released", to |-> sid, role |-> role]
    IN  IF role \in RoleKinds /\ Get(R, role) = sid
        THEN IF sid \notin DOMAIN C
             \* ROLE_OWNER[role] = None is done, CONNECTED[sid] raises KeyError
             THEN Outcome(C, R2, <<>>, "KeyError")
             ELSE Outcome(C2, R2, <<released, broadcast_roles(R2)>>, None)
        ELSE Outcome(C, R, <<>>, None)

\* POST /set-role.  The Flask session it writes (player_id, role) is a signed
\* cookie kept by the browser, not lobby state: it travels in the response.
\* The route reads ROLE_OWNER and changes neither registry.
set_role(R, role) ==
    LET response(status, ok, cookie) ==
            [event |-> "http_response", to |-> "http_client", status |-> status,
             ok |-> ok, session_role |-> cookie]
    IN  IF role \notin RoleKinds
        THEN <<response(400, FALSE, None)>>
        ELSE (IF all_roles_taken(R) THEN <<roles_ready>> ELSE <<>>)
                \o <<response(200, TRUE, role)>>

\* ------------------------------------------------------------ the steps
\* The record of a call: the handler, the caller, the payload, the registries
\* it starts from, and the call that came before it.
Call(op, who, arg) ==
    [op |-> op, sid |-> who, arg |-> arg,
     pre |-> [CONNECTED |-> CONNECTED, ROLE_OWNER |-> ROLE_OWNER],
     prev |-> [op |-> last.op, sid |-> last.sid, arg |-> last.arg],
     raised |-> None]

Apply(out, call) ==
    /\ CONNECTED' = out.CONNECTED
    /\ ROLE_OWNER' = out.ROLE_OWNER
    /\ events' = out.events
    /\ last' = [call EXCEPT !.raised = out.raised]

Init ==
    /\ CONNECTED = [s \in {} |-> [role |-> None]]
    /\ ROLE_OWNER = [r \in RoleKinds |-> None]
    /\ events = <<>>
    /\ last = [op |-> "init", sid |-> None, arg |-> None,
               pre |-> [CONNECTED |-> CONNECTED, ROLE_OWNER |-> ROLE_OWNER],
               prev |-> [op |-> "init", sid |-> None, arg |-> None],
               raised |-> None]

Connect(sid) ==
    Apply(handle_connect(CONNECTED, ROLE_OWNER, sid), Call("connect", sid, None))

Disconnect(sid) ==
    Apply(handle_disconnect(CONNECTED, ROLE_OWNER, sid), Call("disconnect", sid, None))

ChooseRole(sid, desired) ==
    Apply(handle_choose_role(CONNECTED, ROLE_OWNER, sid, desired),
          Call("choose_role", sid, desired))

ReleaseRole(sid, role) ==
    Apply(handle_release_role(CONNECTED, ROLE_OWNER, sid, role),
          Call("release_role", sid, role))

SetRole(role) ==
    /\ events' = set_role(ROLE_OWNER, role)
    /\ last' = Call("set_role", None, role)
    /\ UNCHANGED <<CONNECTED, ROLE_OWNER>>

\* The transport's contract: a sid is handed to connect once, and only a
\* connected sid sends choose_role / release_role.  A disconnect signal may
\* arrive for a sid that is already gone.
Next ==
    \/ \E sid \in Sids : sid \notin DOMAIN CONNECTED /\ Connect(sid)
    \/ \E sid \in Sids : Disconnect(sid)
    \/ \E sid \in Sids, desired \in Desired :
          sid \in DOMAIN CONNECTED /\ ChooseRole(sid, desired)
    \/ \E sid \in Sids, role \in Desired :
          sid \in DOMAIN CONNECTED /\ ReleaseRole(sid, role)
    \/ \E role \in Desired : SetRole(role)

Spec == Init /\ [][Next]_vars

\* ------------------------------------------------------ query helpers
playerCount == Len_CONNECTED(CONNECTED)

rolesSnapshot == [r \in RoleKinds |-> Truthy(ROLE_OWNER[r])]

\* ------------------------------------------------- reading the last call
preCount == Len_CONNECTED(last.pre.CONNECTED)

preOwner(r) == last.pre.ROLE_OWNER[r]

wasConnected == last.sid \in DOMAIN last.pre.CONNECTED

Emitted(name) == \E i \in 1..Len(events) : events[i].event = name

\* The last call was a choose_role that emitted choose_role_failed.
ChooseFailed == last.op = "choose_role" /\ Emitted("choose_role_failed")

ChooseFailedWith(error) ==
    /\ last.op = "choose_role"
    /\ \E i \in 1..Len(events) :
          events[i].event = "choose_role_failed" /\ events[i].error = error

ChooseSucceeded == last.op = "choose_role" /\ Emitted("choose_role_success")

ErrorKinds ==
    {"waiting_for_players", "invalid_role", "role_taken", "already_owns_other_role"}

\* ================================================================ claims

\* C1: in every reachable state each role has at most one owning sid, and no
\* sid owns both roles at the same time.
C1_OneOwnerPerRoleOneRolePerOwner ==
    /\ \A r \in RoleKinds :
          /\ ROLE_OWNER[r] \in Sids \cup {None}
          /\ Cardinality({c \in Sids : ROLE_OWNER[r] = c}) <= 1
    /\ \A c \in Sids : Cardinality({r \in RoleKinds : ROLE_OWNER[r] = c}) <= 1

\* C1 witness: the owner of one role asked for the other, free, role and was
\* refused, which is what keeps it from owning both.
C1_Witness ==
    /\ ChooseFailedWith("already_owns_other_role")
    /\ \E r \in RoleKinds \ {last.arg} : ROLE_OWNER[r] = last.sid
    /\ ROLE_OWNER[last.arg] = None

\* C2: whenever a role has an owner, the owner is connected and its
\* connection records that role; no role is owned by a sid that has left.
C2_OwnerIsConnectedAndRecordsRole ==
    \A r \in RoleKinds :
        ROLE_OWNER[r] # None =>
            /\ ROLE_OWNER[r] \in DOMAIN CONNECTED
            /\ CONNECTED[ROLE_OWNER[r]].role = r

\* C2 witness: an owner has just disconnected while the other role is held.
C2_Witness ==
    /\ last.op = "disconnect"
    /\ \E r \in RoleKinds : preOwner(r) = last.sid
    /\ \E r \in RoleKinds : ROLE_OWNER[r] # None

\* C3: a choose_role that fails leaves CONNECTED and ROLE_OWNER as they were
\* and emits exactly one event, choose_role_failed with one of the four
\* errors, to the requesting sid: no broadcast and no choose_role_success.
C3_FailedChooseChangesNothing ==
    ChooseFailed =>
        /\ CONNECTED = last.pre.CONNECTED
        /\ ROLE_OWNER = last.pre.ROLE_OWNER
        /\ Len(events) = 1
        /\ events[1].event = "choose_role_failed"
        /\ events[1].to = last.sid
        /\ events[1].error \in ErrorKinds

\* C3 witness: a failed choose_role in a lobby where a role is held.
C3_Witness ==
    /\ ChooseFailed
    /\ preCount >= MAX_PLAYERS
    /\ \E r \in RoleKinds : ROLE_OWNER[r] \notin {None, last.sid}

\* C4: the four preconditions of chooseRole as the specification numbers
\* them, read on the registries the call started from.
C4_Precondition(i) ==
    CASE i = 1 -> preCount >= 2
      [] i = 2 -> last.arg \in {"hacker", "defender"}
      [] i = 3 -> ~ (/\ last.arg \in {"hacker", "defender"}
                     /\ preOwner(last.arg) # None
                     /\ preOwner(last.arg) # last.sid)
      [] i = 4 -> ~ \E r \in {"hacker", "defender"} \ {last.arg} :
                        preOwner(r) = last.sid

C4_ErrorOf ==
    <<"waiting_for_players", "invalid_role", "role_taken", "already_owns_other_role">>

C5_InvalidRoleRegardlessOfCount ==
    (last.op = "choose_role" /\ last.arg \notin RoleKinds) =>
        ChooseFailedWith("invalid_role")

\* C5 amended: a choose_role with a role outside {hacker, defender} always
\* fails: with invalid_role when at least 2 connections are present, with
\* waiting_for_players when fewer than 2 are.
C5_InvalidRoleOnceTwoConnected ==
    (last.op = "choose_role" /\ last.arg \notin RoleKinds) =>
        /\ ~ ChooseSucceeded
        /\ Len(events) = 1
        /\ IF preCount >= 2
           THEN ChooseFailedWith("invalid_role")
           ELSE ChooseFailedWith("waiting_for_players")

\* C5 witness: "wizard" is refused as invalid_role with the lobby full.
C5_Witness ==
    /\ last.op = "choose_role"
    /\ last.arg = "wizard"
    /\ preCount >= 2
    /\ ChooseFailedWith("invalid_role")

\* C6: per role, the owner changes only from Free to Claimed(c) by a
\* successful choose_role(c, r), and from Claimed(c) to Free by
\* release_role(c, r) or disconnect(c) of the owner; never from Claimed(c) to
\* Claimed(d).  A choose_role(d, r) while r is Claimed(c), d # c, is refused
\* with role_taken and c stays the owner.
C6_OwnershipTransitions ==
    \A r \in RoleKinds :
        LET o == preOwner(r)
            n == ROLE_OWNER[r]
        IN  /\ o # n =>
                \/ /\ o = None
                   /\ last.op = "choose_role" /\ last.sid = n /\ last.arg = r
                   /\ ChooseSucceeded
                \/ /\ o # None /\ n = None
                   /\ last.sid = o
                   /\ \/ last.op = "disconnect"
                      \/ last.op = "release_role" /\ last.arg = r
            /\ (last.op = "choose_role" /\ last.arg = r /\ o # None /\ o # last.sid) =>
                /\ n = o
                /\ ChooseFailedWith("role_taken")

\* C6 witness: c has claimed r and the next call, choose_role(d, r), is refused.
C6_Witness ==
    /\ ChooseFailedWith("role_taken")
    /\ last.prev.op = "choose_role"
    /\ last.prev.arg = last.arg
    /\ last.prev.sid # last.sid
    /\ ROLE_OWNER[last.arg] = last.prev.sid

\* C7: disconnect of a connected sid always goes through: the sid is gone,
\* every role it owned is free, the player count is one less, and the roles
\* held by other connections keep their owner.
C7_DisconnectCleansUp ==
    (last.op = "disconnect" /\ wasConnected) =>
        /\ last.raised = None
        /\ last.sid \notin DOMAIN CONNECTED
        /\ \A r \in RoleKinds : preOwner(r) = last.sid => ROLE_OWNER[r] = None
        /\ playerCount = preCount - 1
        /\ \A r \in RoleKinds : preOwner(r) # last.sid => ROLE_OWNER[r] = preOwner(r)

\* C7 witness: an owner disconnects while another sid holds the other role.
C7_Witness ==
    /\ last.op = "disconnect"
    /\ wasConnected
    /\ \E r \in RoleKinds : preOwner(r) = last.sid
    /\ \E r \in RoleKinds : ROLE_OWNER[r] \notin {None, last.sid}

\* C8: disconnect of a sid that is not connected leaves CONNECTED and
\* ROLE_OWNER as they were, so a repeated disconnect ends in the state of
\* a single one.
C8_DisconnectAbsentIsNoOp ==
    (last.op = "disconnect" /\ ~ wasConnected) =>
        /\ CONNECTED = last.pre.CONNECTED
        /\ ROLE_OWNER = last.pre.ROLE_OWNER

\* C8 witness: the same sid is disconnected twice in a row while a role is held.
C8_Witness ==
    /\ last.op = "disconnect"
    /\ ~ wasConnected
    /\ last.prev.op = "disconnect"
    /\ last.prev.sid = last.sid
    /\ \E r \in RoleKinds : ROLE_OWNER[r] # None

\* C9: connect(c) of a sid that is not connected, immediately followed by
\* disconnect(c), restores playerCount and rolesSnapshot to what they were
\* before the two calls.
C9_ConnectThenDisconnectRestores ==
    [][(/\ last.op = "connect"
        /\ ~ wasConnected
        /\ last'.op = "disconnect"
        /\ last'.sid = last.sid)
       => (/\ playerCount' = preCount
           /\ rolesSnapshot' = [r \in RoleKinds |-> Truthy(preOwner(r))])]_vars

\* C9 witness: a sid connected and left at once, in a lobby with a role held.
C9_Witness ==
    /\ last.op = "disconnect"
    /\ last.prev.op = "connect"
    /\ last.prev.sid = last.sid
    /\ \E r \in RoleKinds : ROLE_OWNER[r] # None

\* C10: after a successful choose_role(c, r), the same call made again at
\* once succeeds again, with choose_role_success sent to c, and leaves
\* CONNECTED and ROLE_OWNER as the first call left them.
C10_ChooseRoleIdempotentForOwner ==
    [][(/\ ChooseSucceeded
        /\ last'.op = "choose_role"
        /\ last'.sid = last.sid
        /\ last'.arg = last.arg)
       => (/\ Len(events') >= 1
           /\ events'[1] = [event |-> "choose_role_success", to |-> last.sid,
                            role |-> last.arg]
           /\ CONNECTED' = CONNECTED
           /\ ROLE_OWNER' = ROLE_OWNER)]_vars

\* C10 witness: the owner repeated its successful choose_role.
C10_Witness ==
    /\ ChooseSucceeded
    /\ last.prev.op = "choose_role"
    /\ last.prev.sid = last.sid
    /\ last.prev.arg = last.arg
    /\ preOwner(last.arg) = last.sid

\* The last call was a choose_role for a role its caller already owned.
OwnerRechose ==
    /\ last.op = "choose_role"
    /\ last.arg \in RoleKinds
    /\ preOwner(last.arg) = last.sid

\* C11 as stated: in any reachable state where c owns r, choose_role(c, r)
\* emits choose_role_success to c and a roles_update broadcast and leaves
\* CONNECTED and ROLE_OWNER unchanged.
C11_OwnerRechooseAlwaysSucceeds ==
    OwnerRechose =>
        /\ ChooseSucceeded
        /\ Emitted("roles_update")
        /\ CONNECTED = last.pre.CONNECTED
        /\ ROLE_OWNER = last.pre.ROLE_OWNER

\* C11 amended: where c owns r, choose_role(c, r) leaves CONNECTED and
\* ROLE_OWNER unchanged (r stays Claimed(c)); with at least 2 connections it
\* emits choose_role_success to c then a roles_update broadcast, with fewer
\* than 2 it emits only choose_role_failed{waiting_for_players} to c.
C11_OwnerRechooseKeepsState ==
    OwnerRechose =>
        /\ CONNECTED = last.pre.CONNECTED
        /\ ROLE_OWNER = last.pre.ROLE_OWNER
        /\ ROLE_OWNER[last.arg] = last.sid
        /\ IF preCount >= 2
           THEN /\ Len(events) >= 2
                /\ events[1] = [event |-> "choose_role_success", to |-> last.sid,
                                role |-> last.arg]
                /\ events[2].event = "roles_update"
                /\ events[2].to = ToAll
                /\ ~ ChooseFailed
           ELSE events = <<[event |-> "choose_role_failed", to |-> last.sid,
                            error |-> "waiting_for_players"]>>

\* C11 witness: an owner chose its own role again, not right after its claim.
C11_Witness ==
    /\ OwnerRechose
    /\ ChooseSucceeded
    /\ last.prev.op # "choose_role"

\* C12: a choose_role broadcasts roles_ready{ok: true} exactly when it
\* succeeds and both roles are owned afterwards; whichever handler emits
\* roles_ready (choose_role or /set-role), both roles are owned at that moment.
C12_RolesReadyIffBothOwned ==
    /\ last.op = "choose_role" =>
          (Emitted("roles_ready") <=> (ChooseSucceeded /\ all_roles_taken(ROLE_OWNER)))
    /\ Emitted("roles_ready") =>
          /\ last.op \in {"choose_role", "set_role"}
          /\ ROLE_OWNER["hacker"] # None
          /\ ROLE_OWNER["defender"] # None
          /\ \A i \in 1..Len(events) :
                events[i].event = "roles_ready" =>
                    events[i] = [event |-> "roles_ready", to |-> ToAll, ok |-> TRUE]

\* C12 witness: the second player took the remaining role and roles_ready went out.
C12_Witness ==
    /\ ChooseSucceeded
    /\ preOwner(last.arg) = None
    /\ Emitted("roles_ready")

\* The last call was a release_role for a role its caller did not own.
ReleaseNotOwned ==
    /\ last.op = "release_role"
    /\ ~ (last.arg \in RoleKinds /\ preOwner(last.arg) = last.sid)

\* C13: release_role for a role the caller does not own (held by another sid,
\* free, or not a role) changes neither registry and emits nothing.
C13_ReleaseNotOwnedIsSilent ==
    ReleaseNotOwned =>
        /\ CONNECTED = last.pre.CONNECTED
        /\ ROLE_OWNER = last.pre.ROLE_OWNER
        /\ events = <<>>

\* C13 witness: A holds one role and asks to release the other, held by B.
C13_Witness ==
    /\ ReleaseNotOwned
    /\ last.arg \in RoleKinds
    /\ ROLE_OWNER[last.arg] \notin {None, last.sid}
    /\ \E r \in RoleKinds : ROLE_OWNER[r] = last.sid

\* C14: choose_role assigns a role only when exactly MAX_PLAYERS (2)
\* connections are present.
C14_ChooseOnlyWithExactlyTwo ==
    ChooseSucceeded => preCount = 2

\* The caller of the last call owned no role when it called.
CallerOwnedNothing == \A r \in RoleKinds : preOwner(r) # last.sid

C16_SuccessEventOrder ==
    ChooseSucceeded =>
        /\ Len(events) = (IF all_roles_taken(ROLE_OWNER) THEN 3 ELSE 2)
        /\ events[1] = [event |-> "choose_role_success", to |-> last.sid,
                        role |-> last.arg]
        /\ events[2] = [event |-> "roles_update", to |-> ToAll,
                        hacker |-> ROLE_OWNER["hacker"] # None,
                        defender |-> ROLE_OWNER["defender"] # None]
        /\ events[2][last.arg] = TRUE
        /\ ROLE_OWNER[last.arg] = last.sid
        /\ all_roles_taken(ROLE_OWNER) =>
              events[3] = [event |-> "roles_ready", to |-> ToAll, ok |-> TRUE]

\* C16 witness: a fresh claim completed the pair and the three events went out.
C16_Witness ==
    /\ ChooseSucceeded
    /\ preOwner(last.arg) = None
    /\ Len(events) = 3

\* The last call was a release_role for a role its caller owned.
ReleaseOwned ==
    /\ last.op = "release_role"
    /\ last.arg \in RoleKinds
    /\ preOwner(last.arg) = last.sid

\* C17: a release_role by the owner frees the role and clears the
\* connection's role field; the sid stays connected, the count, the other
\* connections and the other role are untouched; it emits role_released to
\* the sid then a roles_update broadcast, and nothing else.
C17_ReleaseByOwner ==
    ReleaseOwned =>
        /\ ROLE_OWNER[last.arg] = None
        /\ \A r \in RoleKinds \ {last.arg} : ROLE_OWNER[r] = preOwner(r)
        /\ DOMAIN CONNECTED = DOMAIN last.pre.CONNECTED
        /\ last.sid \in DOMAIN CONNECTED
        /\ CONNECTED[last.sid].role = None
        /\ \A c \in DOMAIN CONNECTED \ {last.sid} : CONNECTED[c] = last.pre.CONNECTED[c]
        /\ playerCount = preCount
        /\ events = <<[event |-> "role_released", to |-> last.sid, role |-> last.arg],
                      [event |-> "roles_update", to |-> ToAll,
                       hacker |-> ROLE_OWNER["hacker"] # None,
                       defender |-> ROLE_OWNER["defender"] # None]>>
        /\ ~ Emitted("player_count")
        /\ ~ Emitted("roles_ready")

\* C17 witness: an owner released its role while the other role was held.
C17_Witness ==
    /\ ReleaseOwned
    /\ \E r \in RoleKinds : ROLE_OWNER[r] \notin {None, last.sid}

\* C18: every connect and every disconnect emits player_count then
\* roles_update, both to all and both computed after the state change: count
\* is the number of connections left in CONNECTED, max is 2, and each role is
\* reported taken exactly when it has an owner.
C18_ConnectDisconnectBroadcasts ==
    last.op \in {"connect", "disconnect"} =>
        events = <<[event |-> "player_count", to |-> ToAll,
                    count |-> Cardinality(DOMAIN CONNECTED), max |-> 2],
                   [event |-> "roles_update", to |-> ToAll,
                    hacker |-> ROLE_OWNER["hacker"] # None,
                    defender |-> ROLE_OWNER["defender"] # None]>>

\* C18 witness: an owner left, so both the count and the taken flags changed.
C18_Witness ==
    /\ last.op = "disconnect"
    /\ wasConnected
    /\ \E r \in RoleKinds : preOwner(r) = last.sid
    /\ Len(events) = 2
    /\ events[1].count = preCount - 1

\* C19: when both roles are taken their owners are two distinct connected
\* sids, so at least 2 connections are present; roles_ready is never emitted
\* with fewer than 2 connections.
C19_AllTakenNeedsTwoPlayers ==
    /\ all_roles_taken(ROLE_OWNER) =>
          /\ ROLE_OWNER["hacker"] # ROLE_OWNER["defender"]
          /\ {ROLE_OWNER["hacker"], ROLE_OWNER["defender"]} \subseteq DOMAIN CONNECTED
          /\ playerCount >= 2
    /\ Emitted("roles_ready") => playerCount >= 2

\* C19 witness: one player is left holding its role after the other one
\* disconnected, and /set-role was called without roles_ready going out.
C19_Witness ==
    /\ playerCount < 2
    /\ \E r \in RoleKinds : ROLE_OWNER[r] # None
    /\ last.op = "set_role"
    /\ last.arg \in RoleKinds
    /\ ~ Emitted("roles_ready")

\* C20: for every connected c, its role field names a role only if c is that
\* role's owner, and the field is None exactly when c owns no role.
C20_RoleFieldMatchesOwner ==
    \A c \in DOMAIN CONNECTED :
        /\ CONNECTED[c].role \in RoleKinds \cup {None}
        /\ \A r \in RoleKinds : CONNECTED[c].role = r => ROLE_OWNER[r] = c
        /\ CONNECTED[c].role = None <=> (\A r \in RoleKinds : ROLE_OWNER[r] # c)

\* C20 witness: one connection holds a role, another has just given its own up.
C20_Witness ==
    /\ ReleaseOwned
    /\ CONNECTED[last.sid].role = None
    /\ \E c \in DOMAIN CONNECTED : CONNECTED[c].role \in RoleKinds

====
